---------------------------- MODULE Spec2Model ----------------------------
(***************************************************************************)
(* A model of gpt-prompter.py: the traversal and filtering engine          *)
(* (read_gitignore, find_files) and the result handling of main.           *)
(*                                                                         *)
(* Strings are TLA+ strings; a path is a string whose components are       *)
(* separated by "/".  The file system is a small tree below the directory  *)
(* "r"; the contents of its ignore files, the permissions, the command     *)
(* line and the answer of git are chosen by Init.                          *)
(***************************************************************************)
EXTENDS Integers, Sequences, FiniteSets, TLC

(***************************************************************************)
(* Bounds of the model.                                                    *)
(***************************************************************************)
MaxLines == 2      \* lines of text in all ignore files together
MaxPaths == 3      \* positional arguments on the command line

(***************************************************************************)
(* Program constants.                                                      *)
(***************************************************************************)
EXCLUDED_DIRS == {".git"}
EXCLUDED_FILES == {".gitignore"}
GLOBAL_GITIGNORE == "~/.gitignore"
None == "<None>"

(***************************************************************************)
(* String helpers (str methods and os.path functions on POSIX paths).      *)
(***************************************************************************)
Range(s) == {s[i] : i \in 1..Len(s)}

StartsWith(s, pre) == Len(s) >= Len(pre) /\ SubSeq(s, 1, Len(pre)) = pre

EndsWith(s, suf) ==
    Len(s) >= Len(suf) /\ SubSeq(s, Len(s) - Len(suf) + 1, Len(s)) = suf

\* str.strip() for the blank character
RECURSIVE LStrip(_)
LStrip(s) == IF s # "" /\ Head(s) = " " THEN LStrip(Tail(s)) ELSE s

RECURSIVE RStrip(_)
RStrip(s) ==
    IF s # "" /\ EndsWith(s, " ") THEN RStrip(SubSeq(s, 1, Len(s) - 1)) ELSE s

Strip(s) == RStrip(LStrip(s))

\* str.split("/")
RECURSIVE SplitFrom(_, _)
SplitFrom(s, cur) ==
    IF s = "" THEN <<cur>>
    ELSE IF Head(s) = "/" THEN <<cur>> \o SplitFrom(Tail(s), "")
    ELSE SplitFrom(Tail(s), cur \o Head(s))

Split(s) == SplitFrom(s, "")

\* the components of a normalised path
Components(p) == SelectSeq(Split(p), LAMBDA c : c # "" /\ c # ".")

RECURSIVE JoinSegs(_)
JoinSegs(segs) ==
    IF segs = <<>> THEN ""
    ELSE IF Len(segs) = 1 THEN segs[1]
    ELSE segs[1] \o "/" \o JoinSegs(Tail(segs))

\* os.path.join(a, b): an absolute b discards a
PathJoin(a, b) ==
    IF StartsWith(b, "/") THEN b
    ELSE IF a = "" \/ EndsWith(a, "/") THEN a \o b
    ELSE a \o "/" \o b

\* os.path.relpath(path, start)
RECURSIVE CommonLen(_, _)
CommonLen(a, b) ==
    IF a = <<>> \/ b = <<>> \/ Head(a) # Head(b) THEN 0
    ELSE 1 + CommonLen(Tail(a), Tail(b))

Relpath(path, start) ==
    LET p == Components(path)
        s == Components(start)
        i == CommonLen(p, s)
        rel == [k \in 1..(Len(s) - i) |-> ".."] \o SubSeq(p, i + 1, Len(p))
    IN  IF rel = <<>> THEN "." ELSE JoinSegs(rel)

\* os.path.basename / os.path.dirname
Basename(p) == LET c == Split(p) IN c[Len(c)]
Dirname(p) == LET c == Split(p) IN JoinSegs(SubSeq(c, 1, Len(c) - 1))

\* code points of the characters that occur in the model's paths
Letters == "abcdefghijklmnopqrstuvwxyz"
Ord(c) ==
    IF c = "." THEN 46
    ELSE IF c = "/" THEN 47
    ELSE IF c = "~" THEN 126
    ELSE 96 + (CHOOSE i \in 1..Len(Letters) : SubSeq(Letters, i, i) = c)

\* str.__lt__: comparison by code point, a proper prefix is smaller
RECURSIVE StrLess(_, _)
StrLess(a, b) ==
    IF b = "" THEN FALSE
    ELSE IF a = "" THEN TRUE
    ELSE IF Head(a) = Head(b) THEN StrLess(Tail(a), Tail(b))
    ELSE Ord(Head(a)) < Ord(Head(b))

(***************************************************************************)
(* fnmatch.fnmatch(name, pat) for patterns made of literals, "*" and "?".  *)
(***************************************************************************)
RECURSIVE fnmatch(_, _)
fnmatch(name, pat) ==
    IF pat = "" THEN name = ""
    ELSE IF Head(pat) = "*"
        THEN fnmatch(name, Tail(pat)) \/ (name # "" /\ fnmatch(Tail(name), pat))
    ELSE IF Head(pat) = "?"
        THEN name # "" /\ fnmatch(Tail(name), Tail(pat))
    ELSE name # "" /\ Head(name) = Head(pat) /\ fnmatch(Tail(name), Tail(pat))

(***************************************************************************)
(* pathspec: GitWildMatchPattern and PathSpec.  A compiled pattern is a    *)
(* record [include, segs]: include is FALSE for a negation, segs are the   *)
(* normalised pattern segments the regular expression is built from, and   *)
(* segs = <<>> stands for a null pattern (blank line, comment, "/").       *)
(* The lines of the model hold no character class and no escape.           *)
(***************************************************************************)
NullPattern == [include |-> FALSE, segs |-> <<>>]

\* "**" directly after "**" is deleted
RECURSIVE DedupStars(_)
DedupStars(segs) ==
    IF Len(segs) < 2 THEN segs
    ELSE IF segs[1] = "**" /\ segs[2] = "**" THEN DedupStars(Tail(segs))
    ELSE <<segs[1]>> \o DedupStars(Tail(segs))

NormaliseSegs(segs0) ==
    LET segs1 == DedupStars(segs0)
        segs2 == IF segs1[1] = "" THEN Tail(segs1)
                 ELSE IF (Len(segs1) = 1 \/ (Len(segs1) = 2 /\ segs1[2] = ""))
                         /\ segs1[1] # "**"
                      THEN <<"**">> \o segs1
                 ELSE segs1
    IN  IF Len(segs2) > 1 /\ segs2[Len(segs2)] = ""
        THEN SubSeq(segs2, 1, Len(segs2) - 1) \o <<"**">>
        ELSE segs2

\* GitWildMatchPattern.pattern_to_regex
pattern_to_regex(line) ==
    LET pattern == Strip(line)
    IN  IF pattern = "" \/ StartsWith(pattern, "#") \/ pattern = "/"
        THEN NullPattern
        ELSE LET include == ~StartsWith(pattern, "!")
                 body == IF include THEN pattern ELSE Tail(pattern)
             IN  [include |-> include, segs |-> NormaliseSegs(Split(body))]

\* GitWildMatchPattern._translate_segment_glob, applied to one path segment:
\* "*" is [^/]*, "?" is [^/], any other character is itself
RECURSIVE SegmentGlob(_, _)
SegmentGlob(name, seg) ==
    IF seg = "" THEN name = ""
    ELSE IF Head(seg) = "*"
        THEN SegmentGlob(name, Tail(seg))
             \/ (name # "" /\ SegmentGlob(Tail(name), seg))
    ELSE IF Head(seg) = "?"
        THEN name # "" /\ SegmentGlob(Tail(name), Tail(seg))
    ELSE name # "" /\ Head(name) = Head(seg)
         /\ SegmentGlob(Tail(name), Tail(seg))

\* the regular expression of pattern_to_regex, matched against the
\* components F of a normalised relative path
RECURSIVE RegexMatch(_, _)
RegexMatch(P, F) ==
    IF P = <<>> THEN F = <<>>
    ELSE IF Head(P) = "**"
        THEN IF Len(P) = 1 THEN F # <<>>
             ELSE \E k \in 0..Len(F) : RegexMatch(Tail(P), SubSeq(F, k + 1, Len(F)))
    ELSE /\ F # <<>>
         /\ SegmentGlob(Head(F), Head(P))
         /\ (Len(P) = 1 \/ RegexMatch(Tail(P), Tail(F)))

\* RegexPattern.match_file
PatternMatches(pat, file) ==
    pat.segs # <<>> /\ RegexMatch(pat.segs, Components(file))

\* PathSpec.match_file: the last pattern that matches decides
match_file(spec, file) ==
    LET hits == {i \in 1..Len(spec) : PatternMatches(spec[i], file)}
    IN  hits # {} /\ spec[CHOOSE i \in hits : \A j \in hits : j <= i].include

\* PathSpec.from_lines(GitWildMatchPattern, lines)
from_lines(lines) == [i \in 1..Len(lines) |-> pattern_to_regex(lines[i])]

(***************************************************************************)
(* The file system: the tree below "r" as os.scandir lists it, and the     *)
(* user-level ignore file.                                                 *)
(***************************************************************************)
Listing ==
    [d \in {"r", "r/.git", "r/build", "r/sub", "r/sub/node", "r/sub/node/lib"} |->
        CASE d = "r"          -> [dirs  |-> <<".git", "build", "sub">>,
                                  files |-> <<".gitignore", "a.py", "x.tmp">>]
          [] d = "r/.git"     -> [dirs |-> <<>>, files |-> <<"cfg">>]
          [] d = "r/build"    -> [dirs |-> <<>>, files |-> <<"keep.txt", "x.tmp">>]
          [] d = "r/sub"      -> [dirs  |-> <<"node">>,
                                  files |-> <<".gitignore", "k.py", "x.tmp">>]
          [] d = "r/sub/node" -> [dirs |-> <<"lib">>,
                                  files |-> <<".gitignore", "a.py">>]
          [] OTHER            -> [dirs |-> <<>>, files |-> <<"a.py">>]]

Dirs == DOMAIN Listing

FilesIn(d) == {PathJoin(d, Listing[d].files[i]) : i \in 1..Len(Listing[d].files)}

\* os.path.isfile / os.path.isdir
AllFiles == UNION {FilesIn(d) : d \in Dirs}
IgnoreFiles == {f \in AllFiles : Basename(f) = ".gitignore"} \cup {GLOBAL_GITIGNORE}

\* p lies below the directory d
Under(p, d) == StartsWith(p, d \o "/")

(***************************************************************************)
(* State.  The first five variables are the environment of one run, set by *)
(* Init and never changed; the others are the variables of main,           *)
(* read_gitignore and find_files, and what the run has written and opened. *)
(***************************************************************************)
VARIABLES
    ignore_text,      \* ignore file -> its lines
    home_gitignore,   \* os.path.isfile('~/.gitignore')
    noperm,           \* directories and ignore files without read permission
    git,              \* [status, toplevel]: what the git executable answers
    args,             \* argparse namespace: extension, filter, exclude, skip, paths
    pc,               \* where main is
    path_idx,         \* position of the loop over args.paths
    files_to_print,
    git_root,
    gitignore_lines,  \* read_gitignore: the merged lines
    line_origin,      \* for each merged line, the ignore file it was read from
    gitignore_spec,
    walk,             \* os.walk: the directories still to be listed, next first
    walked,           \* find_files: the directories os.walk has yielded
    files,            \* main: the list made from find_files
    unique_files,
    duplicates,
    log_out,          \* what log has printed
    opened            \* the ignore files open() was called on

env == <<ignore_text, home_gitignore, noperm, git, args>>
vars == <<ignore_text, home_gitignore, noperm, git, args, pc, path_idx,
          files_to_print, git_root, gitignore_lines, line_origin,
          gitignore_spec, walk, walked, files, unique_files, duplicates,
          log_out, opened>>

(***************************************************************************)
(* The inputs Init draws from.                                             *)
(***************************************************************************)
SeqsUpTo(S, n) == UNION {[1..k -> S] : k \in 0..n}

\* the lines an ignore file may hold
LinePool(f) ==
    CASE f = GLOBAL_GITIGNORE         -> {"*.tmp"}
      [] f = "r/.gitignore"           -> {"build/", "!build/keep.txt", "*.tmp"}
      [] f = "r/sub/.gitignore"       -> {"*.tmp", "!x.tmp", "/x.tmp", "# c"}
      [] OTHER                        -> {"/a.py", "*.py"}

IgnoreText(g, a, b, c) ==
    [f \in IgnoreFiles |->
        CASE f = GLOBAL_GITIGNORE   -> g
          [] f = "r/.gitignore"     -> a
          [] f = "r/sub/.gitignore" -> b
          [] OTHER                  -> c]

\* every assignment of at most MaxLines lines to the ignore files
IgnoreTexts ==
    UNION {UNION {UNION {
        {IgnoreText(g, a, b, c) :
            c \in SeqsUpTo(LinePool("r/sub/node/.gitignore"),
                           MaxLines - Len(g) - Len(a) - Len(b))} :
            b \in SeqsUpTo(LinePool("r/sub/.gitignore"), MaxLines - Len(g) - Len(a))} :
            a \in SeqsUpTo(LinePool("r/.gitignore"), MaxLines - Len(g))} :
            g \in SeqsUpTo(LinePool(GLOBAL_GITIGNORE), MaxLines)}

NoIgnore == IgnoreText(<<>>, <<>>, <<>>, <<>>)

\* what `git --version` and `git rev-parse --show-toplevel` answer:
\* "missing" is no git executable, "failing" one that exits non-zero
GitAnswers ==
    {[status |-> "ok", toplevel |-> "r"], [status |-> "ok", toplevel |-> None],
     [status |-> "missing", toplevel |-> None],
     [status |-> "failing", toplevel |-> None]}
GitOk == {g \in GitAnswers : g.status = "ok"}

Extensions == {<<>>, <<".py">>, <<".txt", ".py">>}
Filters == {<<>>, <<"k">>}
Excludes == {<<>>, <<"x">>, <<"u">>}
Skips == {<<>>, <<"node">>, <<"u">>}
InputPool == {"r", "r/sub", "r/a.py", "r/sub/k.py", "bar"}
PathLists == SeqsUpTo(InputPool, MaxPaths) \ {<<>>}
OneDir == {<<"r">>, <<"r/sub">>}
ExplicitPool == {"r", "r/sub/k.py", "r/x.tmp", "r/sub/node/.gitignore", "bar"}
ExplicitLists == SeqsUpTo(ExplicitPool, MaxPaths) \ {<<>>}

\* the runs of the model: each family varies one part of the input widely
InitEnv ==
    \/ /\ ignore_text \in IgnoreTexts
       /\ home_gitignore = (ignore_text[GLOBAL_GITIGNORE] # <<>>)
       /\ noperm = {}
       /\ git \in GitOk
       /\ args \in [extension : {<<>>}, filter : {<<>>}, exclude : {<<>>},
                    skip : {<<>>, <<"node">>}, paths : OneDir]
    \/ /\ ignore_text \in {NoIgnore, IgnoreText(<<>>, <<"build/">>, <<>>, <<>>)}
       /\ home_gitignore = FALSE
       /\ noperm = {}
       /\ git \in GitOk
       /\ args \in [extension : Extensions, filter : Filters, exclude : Excludes,
                    skip : Skips, paths : OneDir]
    \/ /\ ignore_text = NoIgnore
       /\ home_gitignore = FALSE
       /\ noperm = {}
       /\ git \in GitOk
       /\ args \in [extension : {<<>>, <<".py">>}, filter : {<<"k">>},
                    exclude : {<<>>}, skip : {<<>>}, paths : PathLists]
                \cup [extension : {<<".py">>}, filter : {<<>>},
                      exclude : {<<"x">>}, skip : {<<"node">>}, paths : PathLists]
    \/ /\ ignore_text \in {NoIgnore, IgnoreText(<<"*.tmp">>, <<>>, <<"*.tmp">>, <<>>)}
       /\ home_gitignore = TRUE
       /\ noperm \in {{}} \cup {{p} : p \in (Dirs \cup IgnoreFiles)}
       /\ git \in GitAnswers
       /\ args \in [extension : {<<>>}, filter : {<<>>}, exclude : {<<>>},
                    skip : {<<>>, <<"node">>},
                    paths : OneDir \cup {<<"r/sub", "r/a.py">>}]
    \/ /\ ignore_text = IgnoreText(<<>>, <<"node/">>, <<>>, <<>>)
       /\ home_gitignore = FALSE
       /\ noperm = {}
       /\ git \in GitOk
       /\ args \in [extension : {<<".py">>}, filter : {<<"k">>},
                    exclude : {<<"g">>}, skip : {<<"node">>},
                    paths : ExplicitLists]

Init ==
    /\ InitEnv
    /\ pc = "start"
    /\ path_idx = 1
    /\ files_to_print = <<>>
    /\ git_root = None
    /\ gitignore_lines = <<>>
    /\ line_origin = <<>>
    /\ gitignore_spec = <<>>
    /\ walk = <<>>
    /\ walked = {}
    /\ files = <<>>
    /\ unique_files = <<>>
    /\ duplicates = <<>>
    /\ log_out = <<>>
    /\ opened = {}

(***************************************************************************)
(* main, up to the loop over the paths.                                    *)
(***************************************************************************)
\* the messages main logs
NoGitWarning == "Warning: Git is not installed. .gitignore files will be ignored."
FlagsIgnoredWarning ==
    "Warning: '--extension' and '--exclude' flags are ignored for explicitly provided file(s)."
DuplicatesWarning == "Warning: Duplicates in your parameters were found:"

Wrap(patterns) == [i \in 1..Len(patterns) |-> "*" \o patterns[i] \o "*"]

isfile(p) == p \in AllFiles
isdir(p) == p \in Dirs

\* check_git_installed, when the executable exists
check_git_installed == git.status = "ok"

find_git_root(path) == git.toplevel

Start ==
    /\ pc = "start"
    /\ args' = [args EXCEPT !.exclude = Wrap(@), !.filter = Wrap(@),
                            !.skip = Wrap(@)]
    /\ IF git.status = "missing"
       THEN \* subprocess.run raises FileNotFoundError, which nothing catches
            /\ pc' = "aborted"
            /\ log_out' = log_out
       ELSE /\ pc' = "loop"
            /\ log_out' = IF check_git_installed THEN log_out
                          ELSE Append(log_out, NoGitWarning)
    /\ UNCHANGED <<ignore_text, home_gitignore, noperm, git, path_idx,
                   files_to_print, git_root, gitignore_lines, line_origin,
                   gitignore_spec, walk, walked, files, unique_files,
                   duplicates, opened>>

CurrentPath == args.paths[path_idx]

\* an explicit file held to the extension list like a traversed one
ExplicitFileFiltered ==
    /\ pc = "loop"
    /\ path_idx <= Len(args.paths)
    /\ isfile(CurrentPath)
    /\ log_out' = log_out
    /\ files_to_print' =
            IF \E i \in 1..Len(args.extension) :
                    EndsWith(CurrentPath, args.extension[i])
            THEN Append(files_to_print, CurrentPath)
            ELSE files_to_print
    /\ path_idx' = path_idx + 1
    /\ UNCHANGED <<env, pc, git_root, gitignore_lines, line_origin,
                   gitignore_spec, walk, walked, files, unique_files,
                   duplicates, opened>>

\* main, lines 180-183: an explicit file
ExplicitFile ==
    /\ pc = "loop"
    /\ path_idx <= Len(args.paths)
    /\ isfile(CurrentPath)
    /\ log_out' = IF args.extension # <<>> \/ args.exclude # <<>>
                  THEN Append(log_out, FlagsIgnoredWarning)
                  ELSE log_out
    /\ files_to_print' = Append(files_to_print, CurrentPath)
    /\ path_idx' = path_idx + 1
    /\ UNCHANGED <<env, pc, git_root, gitignore_lines, line_origin,
                   gitignore_spec, walk, walked, files, unique_files,
                   duplicates, opened>>

\* main, lines 191-192: neither a file nor a directory
InvalidPath ==
    /\ pc = "loop"
    /\ path_idx <= Len(args.paths)
    /\ ~isfile(CurrentPath)
    /\ ~isdir(CurrentPath)
    /\ log_out' = Append(log_out, "Warning: '" \o CurrentPath
                    \o "' is neither a valid file nor a directory. It is skipped.")
    /\ path_idx' = path_idx + 1
    /\ UNCHANGED <<env, pc, files_to_print, git_root, gitignore_lines,
                   line_origin, gitignore_spec, walk, walked, files,
                   unique_files, duplicates, opened>>

(***************************************************************************)
(* read_gitignore(path), called with the resolution root.                  *)
(***************************************************************************)
ResolutionRoot == IF git_root # None THEN git_root ELSE CurrentPath

\* main, lines 184-186, and read_gitignore up to its os.walk: the
\* user-level ignore file
Directory ==
    /\ pc = "loop"
    /\ path_idx <= Len(args.paths)
    /\ ~isfile(CurrentPath)
    /\ isdir(CurrentPath)
    /\ git_root' = IF check_git_installed THEN find_git_root(CurrentPath) ELSE None
    /\ IF home_gitignore
       THEN /\ opened' = opened \cup {GLOBAL_GITIGNORE}
            /\ IF GLOBAL_GITIGNORE \in noperm
               THEN \* open raises PermissionError, which nothing catches
                    /\ pc' = "aborted"
                    /\ gitignore_lines' = <<>>
                    /\ line_origin' = <<>>
                    /\ walk' = <<>>
               ELSE /\ pc' = "read_gitignore"
                    /\ gitignore_lines' = ignore_text[GLOBAL_GITIGNORE]
                    /\ line_origin' = [i \in 1..Len(ignore_text[GLOBAL_GITIGNORE])
                                        |-> GLOBAL_GITIGNORE]
                    /\ walk' = <<IF git_root' # None THEN git_root' ELSE CurrentPath>>
       ELSE /\ opened' = opened
            /\ pc' = "read_gitignore"
            /\ gitignore_lines' = <<>>
            /\ line_origin' = <<>>
            /\ walk' = <<IF git_root' # None THEN git_root' ELSE CurrentPath>>
    /\ UNCHANGED <<env, path_idx, files_to_print, gitignore_spec, walked,
                   files, unique_files, duplicates, log_out>>

\* the sub-directories os.walk goes on with after listing top
Children(top, names) == [i \in 1..Len(names) |-> PathJoin(top, names[i])]

\* lines 92-96: the lines of a nested ignore file, prefixed with sub_dir
ScopedLines(sub_dir, text) ==
    LET stripped == [i \in 1..Len(text) |-> Strip(text[i])]
        kept == SelectSeq(stripped, LAMBDA l : l # "" /\ ~StartsWith(l, "#"))
    IN  [i \in 1..Len(kept) |-> PathJoin(sub_dir, kept[i])]

\* one iteration of the loop of line 85
ReadGitignoreDir ==
    /\ pc = "read_gitignore"
    /\ walk # <<>>
    /\ LET root == Head(walk)
           gitignore_file == PathJoin(root, ".gitignore")
           sub_dir == Relpath(root, ResolutionRoot)
           added == IF sub_dir # "."
                    THEN ScopedLines(sub_dir, ignore_text[gitignore_file])
                    ELSE ignore_text[gitignore_file]
       IN  IF root \in noperm
           THEN \* os.walk drops a directory it cannot list
                /\ walk' = Tail(walk)
                /\ UNCHANGED <<pc, gitignore_lines, line_origin, opened>>
           ELSE IF ".gitignore" \in Range(Listing[root].files)
           THEN /\ opened' = opened \cup {gitignore_file}
                /\ IF gitignore_file \in noperm
                   THEN \* open raises PermissionError, which nothing catches
                        /\ pc' = "aborted"
                        /\ walk' = <<>>
                        /\ UNCHANGED <<gitignore_lines, line_origin>>
                   ELSE /\ pc' = pc
                        /\ walk' = Children(root, Listing[root].dirs) \o Tail(walk)
                        /\ gitignore_lines' = gitignore_lines \o added
                        /\ line_origin' = line_origin \o
                               [i \in 1..Len(added) |-> gitignore_file]
           ELSE /\ walk' = Children(root, Listing[root].dirs) \o Tail(walk)
                /\ UNCHANGED <<pc, gitignore_lines, line_origin, opened>>
    /\ UNCHANGED <<env, path_idx, files_to_print, git_root, gitignore_spec,
                   walked, files, unique_files, duplicates, log_out>>

\* line 100, and main's call of find_files
ReadGitignoreReturn ==
    /\ pc = "read_gitignore"
    /\ walk = <<>>
    /\ gitignore_spec' = from_lines(gitignore_lines)
    /\ pc' = "find_files"
    /\ walk' = <<CurrentPath>>
    /\ walked' = {}
    /\ files' = <<>>
    /\ UNCHANGED <<env, path_idx, files_to_print, git_root, gitignore_lines,
                   line_origin, unique_files, duplicates, log_out, opened>>

(***************************************************************************)
(* find_files                                                              *)
(***************************************************************************)
\* the pruning without the reserved directories
PrunedBySkipOnly(d, skip_patterns) ==
    \E i \in 1..Len(skip_patterns) : fnmatch(d, skip_patterns[i])

\* lines 106-107: the directory d is dropped from dirs
Pruned(d, skip_patterns) ==
    (\E i \in 1..Len(skip_patterns) : fnmatch(d, skip_patterns[i]))
    \/ d \in EXCLUDED_DIRS

\* the condition with the exclude globs tested against the relative path
AcceptedExcludeOnPath(file, relative_path, extensions, include_patterns, exclude_patterns, spec) ==
    /\ include_patterns = <<>>
       \/ \E i \in 1..Len(include_patterns) : fnmatch(file, include_patterns[i])
    /\ extensions = <<>>
       \/ \E i \in 1..Len(extensions) : EndsWith(file, extensions[i])
    /\ ~\E i \in 1..Len(exclude_patterns) :
            fnmatch(relative_path, exclude_patterns[i])
    /\ ~match_file(spec, relative_path)

\* lines 117-120: the condition under which full_path is yielded
Accepted(file, relative_path, extensions, include_patterns, exclude_patterns, spec) ==
    /\ include_patterns = <<>>
       \/ \E i \in 1..Len(include_patterns) : fnmatch(file, include_patterns[i])
    /\ extensions = <<>>
       \/ \E i \in 1..Len(extensions) : EndsWith(file, extensions[i])
    /\ ~\E i \in 1..Len(exclude_patterns) : fnmatch(file, exclude_patterns[i])
    /\ ~match_file(spec, relative_path)

\* the loop over the files without the test of line 111
YieldedWithReserved(root, names) ==
    LET full == [i \in 1..Len(names) |-> PathJoin(root, names[i])]
    IN  SelectSeq(full, LAMBDA full_path :
            Accepted(Basename(full_path),
                     Relpath(full_path, ResolutionRoot),
                     args.extension, args.filter, args.exclude,
                     gitignore_spec))

\* lines 109-121 for the files of one directory
Yielded(root, names) ==
    LET full == [i \in 1..Len(names) |-> PathJoin(root, names[i])]
    IN  SelectSeq(full, LAMBDA full_path :
            /\ Basename(full_path) \notin EXCLUDED_FILES
            /\ Accepted(Basename(full_path),
                        Relpath(full_path, ResolutionRoot),
                        args.extension, args.filter, args.exclude,
                        gitignore_spec))

\* one iteration of the loop of line 105
FindFilesDir ==
    /\ pc = "find_files"
    /\ walk # <<>>
    /\ LET root == Head(walk)
           dirs == SelectSeq(Listing[root].dirs,
                             LAMBDA d : ~Pruned(d, args.skip))
       IN  IF root \in noperm
           THEN \* os.walk drops a directory it cannot list; nothing in the
                \* try block of lines 110-121 raises PermissionError, so the
                \* handler of lines 122-123 never logs
                /\ walk' = Tail(walk)
                /\ UNCHANGED <<walked, files>>
           ELSE /\ walk' = Children(root, dirs) \o Tail(walk)
                /\ walked' = walked \cup {root}
                /\ files' = files \o Yielded(root, Listing[root].files)
    /\ UNCHANGED <<env, pc, path_idx, files_to_print, git_root,
                   gitignore_lines, line_origin, gitignore_spec, unique_files,
                   duplicates, log_out, opened>>

\* main, lines 187-190
FindFilesReturn ==
    /\ pc = "find_files"
    /\ walk = <<>>
    /\ files_to_print' = files_to_print \o files
    /\ path_idx' = path_idx + 1
    /\ pc' = "loop"
    /\ UNCHANGED <<env, git_root, gitignore_lines, line_origin, gitignore_spec,
                   walk, walked, files, unique_files, duplicates, log_out,
                   opened>>

(***************************************************************************)
(* main, lines 194-203: the result and the duplicates.                     *)
(***************************************************************************)
RECURSIVE SetToList(_)
SetToList(S) ==
    IF S = {} THEN <<>>
    ELSE LET e == CHOOSE e \in S : TRUE IN <<e>> \o SetToList(S \ {e})

\* every order list(set(...)) may produce
RECURSIVE Orders(_)
Orders(S) ==
    IF S = {} THEN {<<>>}
    ELSE UNION {{<<e>> \o o : o \in Orders(S \ {e})} : e \in S}

\* list.count
Count(list, e) == Cardinality({i \in 1..Len(list) : list[i] = e})

\* the sort without the conversion to a set
SortedOnly(list) == SortSeq(list, StrLess)

\* lines 194-195
Unique(list) == SortSeq(SetToList(Range(list)), StrLess)

\* the duplicates as the paths that occur more than twice
MoreThanTwice(list) == SelectSeq(list, LAMBDA file : Count(list, file) > 2)

\* line 197
Duplicated(list) == SelectSeq(list, LAMBDA file : Count(list, file) > 1)

Report ==
    /\ pc = "loop"
    /\ path_idx > Len(args.paths)
    /\ unique_files' = Unique(files_to_print)
    /\ IF Len(files_to_print) # Len(unique_files')
       THEN /\ duplicates' \in Orders(Range(Duplicated(files_to_print)))
            /\ log_out' = log_out
                    \o <<DuplicatesWarning>>
                    \o duplicates' \o <<"">>
       ELSE UNCHANGED <<duplicates, log_out>>
    /\ pc' = "done"
    /\ UNCHANGED <<env, path_idx, files_to_print, git_root, gitignore_lines,
                   line_origin, gitignore_spec, walk, walked, files, opened>>

Next ==
    \/ Start
    \/ ExplicitFile
    \/ InvalidPath
    \/ Directory
    \/ ReadGitignoreDir
    \/ ReadGitignoreReturn
    \/ FindFilesDir
    \/ FindFilesReturn
    \/ Report

Spec == Init /\ [][Next]_vars

(***************************************************************************)
(* Properties of find_files.                                               *)
(***************************************************************************)
\* the files of the directories os.walk has yielded, reserved names aside
Encountered ==
    {f \in UNION {FilesIn(d) : d \in walked} : Basename(f) # ".gitignore"}

ExtensionOK(name) ==
    args.extension = <<>> \/ \E e \in Range(args.extension) : EndsWith(name, e)
IncludeOK(name) ==
    args.filter = <<>> \/ \E g \in Range(args.filter) : fnmatch(name, g)
ExcludeOK(name) == \A g \in Range(args.exclude) : ~fnmatch(name, g)
IgnoreOK(f) == ~match_file(gitignore_spec, Relpath(f, ResolutionRoot))

\* C1: a file met in a directory that was not pruned, and not named
\* .gitignore, is yielded if and only if its bare name passes the extension,
\* include and exclude constraints and the ignore spec does not match its
\* path relative to the resolution root.
C1_FilterPolicy ==
    pc = "find_files" =>
        \A f \in Encountered :
            f \in Range(files) <=>
                /\ ExtensionOK(Basename(f))
                /\ IncludeOK(Basename(f))
                /\ ExcludeOK(Basename(f))
                /\ IgnoreOK(f)

\* a walk under all four constraints that yielded one file and rejected
\* others: one for its name, one for the ignore spec alone
C1_Witness ==
    /\ pc = "find_files" /\ walk = <<>>
    /\ args.extension # <<>> /\ args.filter # <<>> /\ args.exclude # <<>>
    /\ gitignore_spec # <<>>
    /\ Range(files) # {}
    /\ \E f \in Encountered : ~IncludeOK(Basename(f))
    /\ \E f \in Encountered :
            /\ ExtensionOK(Basename(f)) /\ IncludeOK(Basename(f))
            /\ ExcludeOK(Basename(f)) /\ ~IgnoreOK(f)

\* the directories below the traversal root that lines 106-107 drop
PrunedDirs ==
    {d \in Dirs : /\ Under(d, CurrentPath)
                  /\ \/ \E g \in Range(args.skip) : fnmatch(Basename(d), g)
                     \/ Basename(d) = ".git"}

\* C4: a directory below the traversal root whose bare name matches a skip
\* glob or is .git is never listed by find_files, and no file beneath it, at
\* any depth, is yielded.
C4_SkipPruning ==
    pc = "find_files" =>
        \A d \in PrunedDirs :
            /\ d \notin walked
            /\ \A f \in Range(files) : ~Under(f, d)

\* a finished walk that pruned a directory for a skip glob and .git, both
\* holding files that pass every filter, one of them two levels down
C4_Witness ==
    /\ pc = "find_files" /\ walk = <<>>
    /\ "r/sub/node" \in PrunedDirs /\ "r/.git" \in PrunedDirs
    /\ "r/sub" \in walked
    /\ \A f \in {"r/sub/node/lib/a.py", "r/.git/cfg"} :
            /\ ExtensionOK(Basename(f)) /\ IncludeOK(Basename(f))
            /\ ExcludeOK(Basename(f)) /\ IgnoreOK(f)

\* the regular files find_files can reach from top: below top, through
\* directories that can be listed, without crossing .git
Reachable(top) ==
    {f \in AllFiles :
        /\ Under(f, top)
        /\ \A d \in Dirs :
              ((d = top \/ Under(d, top)) /\ Under(f, d)) =>
                  (d \notin noperm /\ (d = top \/ Basename(d) # ".git"))}

NoFilters ==
    /\ args.extension = <<>> /\ args.filter = <<>>
    /\ args.exclude = <<>> /\ args.skip = <<>>
    /\ gitignore_spec = <<>>

\* C5 as claimed: with no filter and an empty ignore spec find_files yields
\* exactly the regular files reachable without crossing .git.
C5_AllReachable ==
    (pc = "find_files" /\ walk = <<>> /\ NoFilters) =>
        Range(files) = Reachable(CurrentPath)

\* C5 as amended: with no filter and an empty ignore spec find_files yields
\* exactly the reachable regular files that are not named .gitignore.
C5_AllButReserved ==
    (pc = "find_files" /\ walk = <<>> /\ NoFilters) =>
        Range(files) = {f \in Reachable(CurrentPath) : Basename(f) # ".gitignore"}

\* an unfiltered walk of the whole tree, over ignore files and .git
C5_Witness ==
    /\ pc = "find_files" /\ walk = <<>> /\ NoFilters
    /\ CurrentPath = "r"
    /\ "r/sub/node/lib/a.py" \in Range(files)
    /\ "r/sub/.gitignore" \in Reachable(CurrentPath)
    /\ "r/.git/cfg" \notin Range(files)

(***************************************************************************)
(* Properties of the result of main.                                       *)
(***************************************************************************)
\* C6: the final list is strictly increasing in the order of the path
\* strings, and its elements are exactly the accumulated paths.
C6_SortedUnique ==
    pc = "done" =>
        /\ \A i \in 1..(Len(unique_files) - 1) :
                StrLess(unique_files[i], unique_files[i + 1])
        /\ Range(unique_files) = Range(files_to_print)

\* a run over an explicit file and overlapping directories whose
\* accumulated list is out of order and holds a path twice
C6_Witness ==
    /\ pc = "done"
    /\ Len(unique_files) >= 2
    /\ Len(files_to_print) > Len(unique_files)
    /\ \E i \in 1..(Len(files_to_print) - 1) :
            StrLess(files_to_print[i + 1], files_to_print[i])
    /\ \E i \in 1..Len(args.paths) : isfile(args.paths[i])
    /\ \E i \in 1..Len(args.paths) : isdir(args.paths[i])

\* the paths that occur more than once in the accumulated list
Multiple == {f \in Range(files_to_print) : Count(files_to_print, f) > 1}

\* the lines log printed after the duplicates warning, the closing "" aside
Reported ==
    LET i == CHOOSE j \in 1..Len(log_out) : log_out[j] = DuplicatesWarning
    IN  SubSeq(log_out, i + 1, Len(log_out) - 1)

\* C7: the duplicates warning is logged if and only if a path occurs more
\* than once in the accumulated list, and it lists exactly the paths that
\* occur more than once, each of them once.
C7_DuplicatesReported ==
    pc = "done" =>
        /\ (DuplicatesWarning \in Range(log_out)) <=> (Multiple # {})
        /\ Multiple # {} =>
              /\ Range(Reported) = Multiple
              /\ Len(Reported) = Cardinality(Multiple)
              /\ log_out[Len(log_out)] = ""

\* a file given twice and also found by a traversal that found other files
C7_Witness ==
    /\ pc = "done"
    /\ \E f \in Multiple :
            /\ Count(files_to_print, f) = 3
            /\ Count(args.paths, f) = 2
            /\ Count(unique_files, f) = 1
    /\ Range(files_to_print) # Multiple

(***************************************************************************)
(* Properties of the ignore spec.                                          *)
(***************************************************************************)
\* the files whose path relative to the resolution root lies below it
Candidates == {f \in AllFiles : Under(f, ResolutionRoot)}

Ignored(f) == match_file(gitignore_spec, Relpath(f, ResolutionRoot))

\* the directory whose subtree the rules of the ignore file F are meant for
ScopeOf(F) == IF F = GLOBAL_GITIGNORE THEN ResolutionRoot ELSE Dirname(F)

\* the merged lines that match the candidate f
Hits(f) ==
    {i \in 1..Len(gitignore_lines) :
        PatternMatches(pattern_to_regex(gitignore_lines[i]),
                       Relpath(f, ResolutionRoot))}

\* the line l of the ignore file F is a negation that, read in the
\* directory of F, matches the candidate f
NegationFor(F, l, f) ==
    /\ StartsWith(Strip(l), "!")
    /\ F = GLOBAL_GITIGNORE \/ Under(f, ScopeOf(F))
    /\ PatternMatches(pattern_to_regex(Tail(Strip(l))), Relpath(f, ScopeOf(F)))

\* C2: a candidate is ignored if and only if a merged rule matches it and
\* the last one that does is not a negation; a line with a leading "!" in
\* any ignore file that was read, root or nested, gives a negation rule for
\* the paths it matches; ["build/", "!build/keep.txt"] keeps build/keep.txt
\* and drops the other file of build; with no rule nothing is ignored.
C2_LastMatchWins ==
    pc = "find_files" =>
        /\ \A f \in Candidates :
              Ignored(f) <=>
                  /\ Hits(f) # {}
                  /\ LET last == CHOOSE i \in Hits(f) : \A j \in Hits(f) : j <= i
                     IN  ~StartsWith(Strip(gitignore_lines[last]), "!")
        /\ \A F \in (opened \ noperm) : \A l \in Range(ignore_text[F]) :
              \A f \in Candidates :
                  NegationFor(F, l, f) =>
                      \E i \in 1..Len(gitignore_spec) :
                          /\ line_origin[i] = F
                          /\ ~gitignore_spec[i].include
                          /\ PatternMatches(gitignore_spec[i],
                                            Relpath(f, ResolutionRoot))
        /\ (gitignore_lines = <<"build/", "!build/keep.txt">>
                /\ ResolutionRoot = "r") =>
              (~Ignored("r/build/keep.txt") /\ Ignored("r/build/x.tmp"))
        /\ gitignore_lines = <<>> => \A f \in Candidates : ~Ignored(f)

\* the spec without its i-th pattern
Without(spec, i) == SubSeq(spec, 1, i - 1) \o SubSeq(spec, i + 1, Len(spec))

\* C3: a rule read from the ignore file of a directory D other than the
\* resolution root changes the ignored status of no path outside the
\* subtree of D.
C3_NestedScope ==
    pc = "find_files" =>
        \A i \in 1..Len(gitignore_spec) :
            LET F == line_origin[i]
            IN  (F # GLOBAL_GITIGNORE /\ Dirname(F) # ResolutionRoot) =>
                    \A f \in Candidates :
                        ~Under(f, Dirname(F)) =>
                            (Ignored(f) <=>
                             match_file(Without(gitignore_spec, i),
                                        Relpath(f, ResolutionRoot)))

(***************************************************************************)
(* Properties of the error handling.                                       *)
(***************************************************************************)
\* every directory from top down to the file f can be listed and is kept
Traversable(f, top) ==
    \A d \in Dirs :
        ((d = top \/ Under(d, top)) /\ Under(f, d)) =>
            (d \notin noperm /\ d \notin PrunedDirs)

PermissionWarned ==
    \E i \in 1..Len(log_out) : StartsWith(log_out[i], "Permission denied.")

\* C8: when find_files meets a sub-directory it cannot list, a warning is
\* logged, no file beneath it is yielded, and every sibling directory is
\* still traversed in full.
C8_UnreadableDirectory ==
    (pc = "find_files" /\ walk = <<>>) =>
        \A d \in Dirs :
            (/\ d \in noperm /\ d \notin PrunedDirs
             /\ Under(d, CurrentPath) /\ Dirname(d) \in walked) =>
                /\ PermissionWarned
                /\ \A f \in Range(files) : ~Under(f, d)
                /\ \A e \in Dirs :
                      (Dirname(e) = Dirname(d) /\ e # d) =>
                          \A f \in AllFiles :
                              (/\ Under(f, e) /\ Traversable(f, e)
                               /\ Basename(f) # ".gitignore"
                               /\ ExtensionOK(Basename(f))
                               /\ IncludeOK(Basename(f))
                               /\ ExcludeOK(Basename(f)) /\ IgnoreOK(f)) =>
                                  f \in Range(files)

\* the lines of the ignore file F that are neither blank nor a comment
RuleLines(F) ==
    {l \in Range(ignore_text[F]) : Strip(l) # "" /\ ~StartsWith(Strip(l), "#")}

\* C9: an ignore file that exists but cannot be read does not end the run;
\* read_gitignore returns a spec with the rules of every other ignore file.
C9_UnreadableIgnoreFile ==
    (opened \cap noperm # {}) =>
        /\ pc # "aborted"
        /\ pc = "find_files" =>
              \A G \in (opened \ noperm) :
                  RuleLines(G) # {} => G \in Range(line_origin)

\* C10: while a directory root is processed, no .gitignore inside a
\* directory that find_files prunes is opened, and no line of the merged
\* spec comes from such a file.
C10_PrunedIgnoreFilesUnread ==
    pc \in {"read_gitignore", "find_files"} =>
        \A F \in (IgnoreFiles \ {GLOBAL_GITIGNORE}) :
            (\E d \in PrunedDirs : Under(F, d)) =>
                (F \notin opened /\ F \notin Range(line_origin))

(***************************************************************************)
(* Properties of the explicit inputs of main.                              *)
(***************************************************************************)
\* the inputs main has gone through
Handled == {i \in 1..Len(args.paths) : i < path_idx}

\* the number of explicit inputs equal to p among those gone through
GivenSoFar(p) == Cardinality({i \in Handled : args.paths[i] = p})

\* the explicit file p fails the whole filter policy: extension, include,
\* exclude, skip directory, ignore rule and reserved name
FailsEveryFilter(p) ==
    /\ ~ExtensionOK(Basename(p)) /\ ~IncludeOK(Basename(p))
    /\ ~ExcludeOK(Basename(p))
    /\ \E d \in Dirs :
          Under(p, d) /\ \E g \in Range(args.skip) : fnmatch(Basename(d), g)
    /\ match_file(gitignore_spec, Relpath(p, "r"))
    /\ Basename(p) \in EXCLUDED_FILES

\* C11: every input that is a regular file is in the accumulated list, at
\* least as often as it was given, and in the final list, whatever the
\* filters say; an input that is neither a file nor a directory adds nothing
\* and the inputs after it are still handled.
C11_ExplicitFilesBypass ==
    pc \in {"loop", "done"} =>
        /\ \A i \in Handled :
              isfile(args.paths[i]) =>
                  Count(files_to_print, args.paths[i]) >= GivenSoFar(args.paths[i])
        /\ \A i \in Handled :
              (~isfile(args.paths[i]) /\ ~isdir(args.paths[i])) =>
                  args.paths[i] \notin Range(files_to_print)
        /\ pc = "done" =>
              /\ Handled = 1..Len(args.paths)
              /\ \A i \in Handled :
                    isfile(args.paths[i]) => args.paths[i] \in Range(unique_files)

\* a finished run over a directory, an invalid path and then a file that
\* fails every filter and is in the final list all the same
C11_Witness ==
    /\ pc = "done"
    /\ gitignore_spec # <<>>
    /\ \E i \in 1..Len(args.paths) : \E j \in 1..Len(args.paths) :
          /\ i < j
          /\ ~isfile(args.paths[i]) /\ ~isdir(args.paths[i])
          /\ isfile(args.paths[j])
          /\ FailsEveryFilter(args.paths[j])
          /\ args.paths[j] \in Range(unique_files)

=============================================================================
